---- MODULE Spec2Model ----
(***************************************************************************)
(* A model of the Excel validation session of src/excel_validator.py       *)
(* (ExcelValidator: load_excel, validate_data, generate_report) and of the *)
(* rule library of src/validation_rules.py (ValidationRules).              *)
(*                                                                         *)
(* Conventions.                                                            *)
(*  - A cell is a record [kind, num, text].  kind is "null" (NaN), "num"   *)
(*    (a number) or "str" (text).  Numbers are kept in halves: num = 2 * v,*)
(*    so 7 stands for 3.5 and 4 for 2; every number of the model is a      *)
(*    multiple of one half and is not negative.                            *)
(*  - A table (DataFrame) is [present, columns, cells]: columns is the     *)
(*    ordered list of column names and cells[i] the series of column i.    *)
(*    The absent table (None) is NoneDF.                                   *)
(*  - An outcome record (a dict of detailed_results) is                    *)
(*    [rule, status, has_column, column, has_details, details]; the two    *)
(*    has_ flags say whether the dict holds the key.                       *)
(*  - Message texts are built as the f-strings of the source build them.   *)
(***************************************************************************)
EXTENDS Integers, Sequences, FiniteSets, TLC

(***************************************************************************)
(* Bounds of the model.                                                    *)
(***************************************************************************)
\* the largest number of cells (columns times rows) of a sheet
MaxCells == 2
\* the largest number of rules and rule/column pairs a configuration names
MaxRules == 2
\* numerals are parsed up to this number of halves
MaxNum == 8
\* the largest number of rows of a table handed to a rule directly
MaxRows == 4
\* the largest number of rows of a table handed to find_duplicates
MaxNames == 3

(***************************************************************************)
(* Text helpers: Python's str() and repr() of the values that reach a      *)
(* message.                                                                *)
(***************************************************************************)
\* str() of a number kept in halves: 4 -> "2", 7 -> "3.5"
NumText(n) == IF n % 2 = 0 THEN ToString(n \div 2)
              ELSE ToString(n \div 2) \o ".5"

\* str() of a float kept in halves: 4 -> "2.0", 7 -> "3.5"
FloatText(n) == IF n % 2 = 0 THEN ToString(n \div 2) \o ".0"
                ELSE ToString(n \div 2) \o ".5"

RECURSIVE JoinWith(_, _)
\* sep.join(parts)
JoinWith(parts, sep) ==
    IF Len(parts) = 0 THEN ""
    ELSE IF Len(parts) = 1 THEN parts[1]
    ELSE parts[1] \o sep \o JoinWith(Tail(parts), sep)

\* repr() of a list whose elements have the given reprs
ListRepr(reprs) == "[" \o JoinWith(reprs, ", ") \o "]"

\* repr() of a str
Quoted(s) == "'" \o s \o "'"

\* repr() of a list of ints (positional indices)
IndexListRepr(idx) == ListRepr([i \in 1..Len(idx) |-> ToString(idx[i])])

\* repr() of a list of str
StrListRepr(strs) == ListRepr([i \in 1..Len(strs) |-> Quoted(strs[i])])

\* str.lower() on the type tags
Lower(s) == CASE s = "INT" -> "int"
              [] s = "Int" -> "int"
              [] s = "FLOAT" -> "float"
              [] s = "Float" -> "float"
              [] s = "STR" -> "str"
              [] s = "Str" -> "str"
              [] s = "Object" -> "object"
              [] s = "Bool" -> "bool"
              [] OTHER -> s

(***************************************************************************)
(* Cells, series and tables.                                               *)
(***************************************************************************)
Null == [kind |-> "null", num |-> 0, text |-> ""]
Num(n) == [kind |-> "num", num |-> n, text |-> ""]
Str(s) == [kind |-> "str", num |-> 0, text |-> s]

NoneDF == [present |-> FALSE, columns |-> <<>>, cells |-> <<>>]

\* col in df.columns
HasColumn(df, col) == \E i \in 1..Len(df.columns) : df.columns[i] = col

\* df[col]
Series(df, col) ==
    df.cells[CHOOSE i \in 1..Len(df.columns) : df.columns[i] = col]

\* the positional indices (0-based, ascending) at which the mask s is TRUE
RECURSIVE IndicesFrom(_, _)
IndicesFrom(s, k) ==
    IF k > Len(s) THEN <<>>
    ELSE (IF s[k] THEN <<k - 1>> ELSE <<>>) \o IndicesFrom(s, k + 1)

Indices(s) == IndicesFrom(s, 1)

\* the dtype pandas infers for a series
Dtype(s) ==
    IF Len(s) = 0 THEN "object"
    ELSE IF \E i \in 1..Len(s) : s[i].kind = "str" THEN "object"
    ELSE IF \A i \in 1..Len(s) : s[i].kind = "num" /\ s[i].num % 2 = 0
         THEN "int64"
    ELSE "float64"

\* pd.to_numeric of one value: [ok, num]; text is a number when it is the
\* numeral of a number ("2", "2.0", "3.5"), and any other text raises ValueError
ToNumeric(c) ==
    IF c.kind = "num" THEN [ok |-> TRUE, num |-> c.num]
    ELSE IF c.kind = "str"
              /\ \E n \in 0..MaxNum : c.text \in {NumText(n), FloatText(n)}
         THEN [ok |-> TRUE,
               num |-> CHOOSE n \in 0..MaxNum : c.text \in {NumText(n), FloatText(n)}]
    ELSE [ok |-> FALSE, num |-> 0]

\* astype(str) of one value as read_excel's dtype=str does it: NaN stays NaN
AsStr(c) == IF c.kind = "num" THEN Str(NumText(c.num)) ELSE c

\* repr() of a cell inside the list of a message, in a series of dtype d
CellRepr(c, d) ==
    IF c.kind = "null" THEN "nan"
    ELSE IF c.kind = "str" THEN Quoted(c.text)
    ELSE IF d = "int64" \/ (d = "object" /\ c.num % 2 = 0) THEN NumText(c.num)
    ELSE FloatText(c.num)

(***************************************************************************)
(* Outcome records.                                                        *)
(***************************************************************************)
\* {"rule": rule, "status": status}
Outcome(rule, status) ==
    [rule |-> rule, status |-> status, has_column |-> FALSE, column |-> "",
     has_details |-> FALSE, details |-> ""]

\* {"rule": rule, "status": status, "details": details}
OutcomeD(rule, status, details) ==
    [rule |-> rule, status |-> status, has_column |-> FALSE, column |-> "",
     has_details |-> TRUE, details |-> details]

\* {"rule": rule, "status": status, "column": column}
OutcomeC(rule, status, column) ==
    [rule |-> rule, status |-> status, has_column |-> TRUE, column |-> column,
     has_details |-> FALSE, details |-> ""]

\* {"rule": rule, "status": status, "column": column, "details": details}
OutcomeCD(rule, status, column, details) ==
    [rule |-> rule, status |-> status, has_column |-> TRUE, column |-> column,
     has_details |-> TRUE, details |-> details]

NotLoadedText == "DataFrame not loaded"
ColumnNotFoundText == "Column not found"

(***************************************************************************)
(* The rule library (ValidationRules).                                     *)
(***************************************************************************)
IsNullCell(c) == c.kind = "null"

\* a variant of MissingColumns that stops at the first absent column
MissingColumnsFirstOnly(df, expected_columns) ==
    LET missing == SelectSeq(expected_columns, LAMBDA col : ~HasColumn(df, col))
    IN  IF missing = <<>> THEN <<>> ELSE <<missing[1]>>

\* [col for col in expected_columns if col not in df.columns]
MissingColumns(df, expected_columns) ==
    SelectSeq(expected_columns, LAMBDA col : ~HasColumn(df, col))

check_column_names(df, expected_columns) ==
    IF ~df.present
    THEN OutcomeD("check_column_names", "skipped", NotLoadedText)
    ELSE IF MissingColumns(df, expected_columns) # <<>>
    THEN OutcomeD("check_column_names", "failed",
                  "Missing columns: "
                  \o StrListRepr(MissingColumns(df, expected_columns)))
    ELSE Outcome("check_column_names", "passed")

\* df.isnull().sum() of one column
NullCount(s) == Len(SelectSeq(s, IsNullCell))

\* missing_info[missing_info > 0].to_dict(), as the reprs of its items
RECURSIVE MissingInfoFrom(_, _)
MissingInfoFrom(df, i) ==
    IF i > Len(df.columns) THEN <<>>
    ELSE (IF NullCount(df.cells[i]) > 0
          THEN <<Quoted(df.columns[i]) \o ": " \o ToString(NullCount(df.cells[i]))>>
          ELSE <<>>)
         \o MissingInfoFrom(df, i + 1)

check_missing_values(df) ==
    IF ~df.present
    THEN OutcomeD("check_missing_values", "skipped", NotLoadedText)
    ELSE IF MissingInfoFrom(df, 1) # <<>>
    THEN OutcomeD("check_missing_values", "failed",
                  "Columns with missing values: {"
                  \o JoinWith(MissingInfoFrom(df, 1), ", ") \o "}")
    ELSE Outcome("check_missing_values", "passed")

\* a variant of FailsNumeric that accepts every number as an int
FailsNumericAnyNumber(c, expected_type_lower) ==
    c.kind # "null" /\ ~ToNumeric(c).ok

\* the cell fails the numeric check of check_data_type: it is not null and
\* either it does not convert, or the tag is int and the number has a
\* fractional part
FailsNumeric(c, expected_type_lower) ==
    /\ c.kind # "null"
    /\ \/ ~ToNumeric(c).ok
       \/ expected_type_lower = "int" /\ ToNumeric(c).num % 2 # 0

IsObjectOrStringDtype(d) == d = "object"
IsBoolDtype(d) == d = "bool"
IsNumericDtype(d) == d \in {"int64", "float64", "bool"}

check_data_type(df, column, expected_type) ==
    IF ~df.present
    THEN OutcomeCD("check_data_type", "skipped", column, NotLoadedText)
    ELSE IF ~HasColumn(df, column)
    THEN OutcomeCD("check_data_type", "skipped", column, ColumnNotFoundText)
    ELSE
      LET actual_series == Series(df, column)
          actual_dtype == Dtype(actual_series)
          expected_type_lower == Lower(expected_type)
          failed_indices ==
              Indices([k \in DOMAIN actual_series |-> FailsNumeric(actual_series[k], expected_type_lower)])
      IN  IF expected_type_lower \in {"int", "float"}
          THEN IF failed_indices # <<>>
               THEN OutcomeCD("check_data_type", "failed", column,
                        "Expected type '" \o expected_type
                        \o "', but non-numeric or non-integer values found at indices "
                        \o IndexListRepr(failed_indices) \o ".")
               ELSE OutcomeC("check_data_type", "passed", column)
          ELSE IF expected_type_lower \in {"object", "str"}
          THEN IF \/ IsObjectOrStringDtype(actual_dtype)
                  \/ \A i \in 1..Len(actual_series) :
                         actual_series[i].kind \in {"null", "str"}
               THEN OutcomeC("check_data_type", "passed", column)
               ELSE OutcomeCD("check_data_type", "failed", column,
                        "Expected type '" \o expected_type \o "', but found '"
                        \o actual_dtype \o "'.")
          ELSE IF expected_type_lower = "bool"
          THEN IF IsBoolDtype(actual_dtype)
               THEN OutcomeC("check_data_type", "passed", column)
               ELSE OutcomeCD("check_data_type", "failed", column,
                        "Expected type 'bool', but found '" \o actual_dtype \o "'.")
          ELSE OutcomeCD("check_data_type", "failed", column,
                        "Expected type '" \o expected_type \o "' is not supported.")

\* the dtype of pd.to_numeric(series, errors='coerce')
CoercedDtype(s) ==
    IF \A i \in 1..Len(s) : ToNumeric(s[i]).ok /\ ToNumeric(s[i]).num % 2 = 0
    THEN "int64" ELSE "float64"

\* actual_series.notnull() & numeric_series.isnull()
NonNumericCell(c) == c.kind # "null" /\ ~ToNumeric(c).ok

\* a variant of BelowMin that lists the cells equal to the minimum too
BelowMinInclusive(c, min_value) ==
    ToNumeric(c).ok /\ ToNumeric(c).num <= 2 * min_value.value

\* the optional bounds of a range are [has, value]; value is a whole number
BelowMin(c, min_value) == ToNumeric(c).ok /\ ToNumeric(c).num < 2 * min_value.value
AboveMax(c, max_value) == ToNumeric(c).ok /\ ToNumeric(c).num > 2 * max_value.value

\* a variant of check_range that reports a column that is not in the table
\* as a failure
check_range_absent_fails(df, column, min_value, max_value) ==
    IF ~df.present
    THEN OutcomeCD("check_range", "skipped", column, NotLoadedText)
    ELSE OutcomeCD("check_range", "failed", column, ColumnNotFoundText)

\* a variant of check_range that returns as soon as it has found cells that
\* are not numeric, without checking the bounds
check_range_stops_at_text(df, column, min_value, max_value) ==
    IF ~df.present
    THEN OutcomeCD("check_range", "skipped", column, NotLoadedText)
    ELSE IF ~HasColumn(df, column)
    THEN OutcomeCD("check_range", "skipped", column, ColumnNotFoundText)
    ELSE
      LET actual_series == Series(df, column)
          non_numeric_indices == Indices([k \in DOMAIN actual_series |-> NonNumericCell(actual_series[k])])
          failed_min == Indices([k \in DOMAIN actual_series |-> BelowMin(actual_series[k], min_value)])
          failed_max == Indices([k \in DOMAIN actual_series |-> AboveMax(actual_series[k], max_value)])
          failures ==
              (IF min_value.has /\ failed_min # <<>>
               THEN <<"Values below minimum (" \o ToString(min_value.value)
                      \o ") found at indices: " \o IndexListRepr(failed_min)>>
               ELSE <<>>)
              \o (IF max_value.has /\ failed_max # <<>>
                  THEN <<"Values above maximum (" \o ToString(max_value.value)
                         \o ") found at indices: " \o IndexListRepr(failed_max)>>
                  ELSE <<>>)
      IN  IF non_numeric_indices # <<>>
          THEN OutcomeCD("check_range", "failed", column,
                   "Column '" \o column
                   \o "' contains non-numeric values that prevent range check at indices "
                   \o IndexListRepr(non_numeric_indices) \o ".")
          ELSE IF failures # <<>>
          THEN OutcomeCD("check_range", "failed", column, JoinWith(failures, "; "))
          ELSE OutcomeC("check_range", "passed", column)

check_range(df, column, min_value, max_value) ==
    IF ~df.present
    THEN OutcomeCD("check_range", "skipped", column, NotLoadedText)
    ELSE IF ~HasColumn(df, column)
    THEN OutcomeCD("check_range", "skipped", column, ColumnNotFoundText)
    ELSE
      LET actual_series == Series(df, column)
          non_numeric_indices == Indices([k \in DOMAIN actual_series |-> NonNumericCell(actual_series[k])])
          numeric == IsNumericDtype(CoercedDtype(actual_series))
          failed_min == Indices([k \in DOMAIN actual_series |-> BelowMin(actual_series[k], min_value)])
          failed_max == Indices([k \in DOMAIN actual_series |-> AboveMax(actual_series[k], max_value)])
          failures ==
              (IF non_numeric_indices # <<>>
               THEN <<"Column '" \o column
                      \o "' contains non-numeric values that prevent range check at indices "
                      \o IndexListRepr(non_numeric_indices) \o ".">>
               ELSE <<>>)
              \o (IF numeric /\ min_value.has /\ failed_min # <<>>
                  THEN <<"Values below minimum (" \o ToString(min_value.value)
                         \o ") found at indices: " \o IndexListRepr(failed_min)>>
                  ELSE <<>>)
              \o (IF numeric /\ max_value.has /\ failed_max # <<>>
                  THEN <<"Values above maximum (" \o ToString(max_value.value)
                         \o ") found at indices: " \o IndexListRepr(failed_max)>>
                  ELSE <<>>)
              \o (IF ~numeric /\ non_numeric_indices = <<>>
                  THEN <<"Column '" \o column
                         \o "' is not numeric and cannot be checked for range.">>
                  ELSE <<>>)
      IN  IF failures # <<>>
          THEN OutcomeCD("check_range", "failed", column, JoinWith(failures, "; "))
          ELSE OutcomeC("check_range", "passed", column)

\* df[column].dropna().duplicated().any()
HasDuplicates(s) ==
    \E i, j \in 1..Len(s) : i < j /\ s[i].kind # "null" /\ s[i] = s[j]

\* df[column][df[column].duplicated(keep=False)].unique().tolist(): the values
\* (NaN included) that occur more than once, each once, by first occurrence
RECURSIVE DuplicatedFrom(_, _)
DuplicatedFrom(s, k) ==
    IF k > Len(s) THEN <<>>
    ELSE (IF /\ \E j \in 1..Len(s) : j # k /\ s[j] = s[k]
             /\ \A j \in 1..(k - 1) : s[j] # s[k]
          THEN <<s[k]>> ELSE <<>>)
         \o DuplicatedFrom(s, k + 1)

check_unique_values(df, column) ==
    IF ~df.present
    THEN OutcomeCD("check_unique_values", "skipped", column, NotLoadedText)
    ELSE IF ~HasColumn(df, column)
    THEN OutcomeCD("check_unique_values", "skipped", column, ColumnNotFoundText)
    ELSE
      LET s == Series(df, column)
          duplicated_values == DuplicatedFrom(s, 1)
      IN  IF HasDuplicates(s)
          THEN OutcomeCD("check_unique_values", "failed", column,
                   "Duplicate values found in column '" \o column
                   \o "'. Duplicated values (showing first occurrence): "
                   \o ListRepr([i \in 1..Len(duplicated_values) |->
                                   CellRepr(duplicated_values[i], Dtype(s))]))
          ELSE OutcomeC("check_unique_values", "passed", column)

(***************************************************************************)
(* The validation session (ExcelValidator).                                *)
(***************************************************************************)
VARIABLES
    validation_config,  \* self.validation_config, fixed at construction
    df,                 \* self.df, NoneDF for None
    detailed_results,   \* self.detailed_results
    last_op,            \* the last method called ("none" after construction)
    prev_op,            \* the method called before it
    returned,           \* what the last load_excel or validate_data returned
    report_content,     \* what the last generate_report returned
    saved,              \* "none": no output path; "saved": the file was written;
                        \* "error": open or write raised
    started,            \* load_excel or validate_data has been called
    duplicates,         \* what find_duplicates (src/main.py) returned
    raised              \* the exception find_duplicates raised, or "none"

vars == <<validation_config, df, detailed_results, last_op, prev_op, returned,
          report_content, saved, started, duplicates, raised>>

\* self.filepath and the output path handed to generate_report
filepath == "data.xlsx"
output_filepath == "report.txt"

\* str(e) of the exception pd.read_excel raises on a file it cannot parse
ParseErrorText == "File is not a zip file"

(***************************************************************************)
(* The inputs: the files load_excel may find, and the configurations.      *)
(***************************************************************************)
ColumnNames == {"ID", "Value"}

\* the cells of the sheets: NaN, 3.5 and a text that is no numeral
FileCells == {Null, Num(7), Str("x")}

\* the lists of distinct columns
ColumnLists ==
    {s \in UNION {[1..k -> ColumnNames] : k \in 0..Cardinality(ColumnNames)} :
        \A i, j \in 1..Len(s) : i # j => s[i] # s[j]}

\* the headers of the sheets
Headers == {<<>>, <<"ID">>, <<"ID", "Value">>}

\* the sheets: a header and, under each column, the same number of cells
Sheets ==
    UNION {
        UNION {
            {[present |-> TRUE, columns |-> h, cells |-> cs] :
                cs \in [1..Len(h) -> [1..n -> FileCells]]} :
            n \in {m \in 0..MaxCells : m * Len(h) <= MaxCells /\ (Len(h) = 0 => m = 0)}} :
        h \in Headers}

\* what load_excel finds at filepath: no file, a file it cannot parse, a sheet
Files ==
    {[kind |-> "missing", table |-> NoneDF], [kind |-> "corrupt", table |-> NoneDF]}
    \cup {[kind |-> "sheet", table |-> t] : t \in Sheets}

TypeTags == {"int", "str"}

NoBound == [has |-> FALSE, value |-> 0]
Bound(v) == [has |-> TRUE, value |-> v]

\* the ranges of the configurations: [2, 3] and [3, +inf)
Ranges == {[min |-> Bound(2), max |-> Bound(3)],
           [min |-> Bound(3), max |-> NoBound]}

\* the lists of entries of a per-column mapping (a dict: its keys are distinct)
EntryLists(Params) ==
    {e \in UNION {[1..k -> [column : ColumnNames, param : Params]] :
                     k \in 0..Cardinality(ColumnNames)} :
        \A i, j \in 1..Len(e) : i # j => e[i].column # e[j].column}

\* the number of rules and rule/column pairs a configuration names
RuleCount(c) ==
    (IF c.has_expected_columns THEN 1 ELSE 0)
    + (IF c.has_check_missing_values /\ c.check_missing_values THEN 1 ELSE 0)
    + Len(c.column_types) + Len(c.check_unique_values) + Len(c.column_ranges)

\* The configurations.  has_x says whether the dict holds the key x.  The
\* keys of column_types and column_ranges are distinct, being the keys of a
\* dict; check_unique_values is a set of columns and names none twice; a
\* per-column key that is present names at least one column.
AllConfigs ==
    {[has_expected_columns |-> ec.has, expected_columns |-> ec.value,
      has_check_missing_values |-> mv.has, check_missing_values |-> mv.value,
      has_column_types |-> Len(ct) > 0, column_types |-> ct,
      has_check_unique_values |-> Len(uv) > 0, check_unique_values |-> uv,
      has_column_ranges |-> Len(cr) > 0, column_ranges |-> cr] :
        ec \in {[has |-> FALSE, value |-> <<>>]}
               \cup {[has |-> TRUE, value |-> s] : s \in {<<"Value", "ID">>}},
        mv \in {[has |-> FALSE, value |-> FALSE], [has |-> TRUE, value |-> FALSE],
                [has |-> TRUE, value |-> TRUE]},
        ct \in {e \in EntryLists(TypeTags) : Len(e) <= MaxRules},
        uv \in {e \in ColumnLists : Len(e) <= MaxRules},
        cr \in {e \in EntryLists(Ranges) : Len(e) <= MaxRules}}

Configs == {c \in AllConfigs : RuleCount(c) <= MaxRules}

(***************************************************************************)
(* load_excel.                                                             *)
(***************************************************************************)
\* numeric_cols_in_config: the columns whose configured tag is int or float
IsNumericCol(config, col) ==
    \E i \in 1..Len(config.column_types) :
        /\ config.column_types[i].column = col
        /\ Lower(config.column_types[i].param) \in {"int", "float"}

\* pd.read_excel(filepath, dtype={col: str for col in numeric_cols_in_config})
\* of a sheet: the cells of those columns are turned to text
ReadExcel(config, table) ==
    [table EXCEPT !.cells =
        [i \in 1..Len(table.columns) |->
            IF IsNumericCol(config, table.columns[i])
            THEN [k \in 1..Len(table.cells[i]) |-> AsStr(table.cells[i][k])]
            ELSE table.cells[i]]]

\* what pd.read_excel does on a file: it raises FileNotFoundError
\* ("missing"), raises another exception ("corrupt"), or returns a table
Read(config, file) ==
    [kind |-> file.kind,
     table |-> IF file.kind = "sheet" THEN ReadExcel(config, file.table) ELSE NoneDF]

LoadPassed == OutcomeD("load_excel", "passed", "File loaded successfully.")
LoadNotFound == OutcomeD("load_excel", "failed", "File not found at " \o filepath)
LoadError ==
    OutcomeD("load_excel", "failed", "Error loading excel file: " \o ParseErrorText)

\* the record load_excel appends
LoadRecord(read) ==
    IF read.kind = "sheet" THEN LoadPassed
    ELSE IF read.kind = "missing" THEN LoadNotFound
    ELSE LoadError

\* a variant of load_excel that leaves self.df as it was when the read fails
load_excel_keeps_table(read) ==
    /\ detailed_results' = <<LoadRecord(read)>>
    /\ df' = IF read.kind = "sheet" THEN read.table ELSE df
    /\ returned' = (read.kind = "sheet")
    /\ prev_op' = last_op
    /\ last_op' = "load_excel"
    /\ report_content' = ""
    /\ saved' = "none"
    /\ started' = TRUE
    /\ UNCHANGED validation_config

\* read: what pd.read_excel did
load_excel(read) ==
    /\ detailed_results' = <<LoadRecord(read)>>
    /\ df' = IF read.kind = "sheet" THEN read.table ELSE NoneDF
    /\ returned' = (read.kind = "sheet")
    /\ prev_op' = last_op
    /\ last_op' = "load_excel"
    /\ report_content' = ""
    /\ saved' = "none"
    /\ started' = TRUE
    /\ UNCHANGED validation_config

(***************************************************************************)
(* validate_data.                                                          *)
(***************************************************************************)
IsLoadRecord(res) == res.rule = "load_excel"

\* next((res for res in results if res["rule"] == "load_excel"), None), as a
\* list of no or one record
LoadResult(results) ==
    IF SelectSeq(results, IsLoadRecord) = <<>> THEN <<>>
    ELSE <<Head(SelectSeq(results, IsLoadRecord))>>

NotLoadedBefore ==
    OutcomeD("load_excel", "failed", "DataFrame not loaded before validation.")

\* a variant of TypeResults that checks the first entry only
TypeResultsFirstOnly(d, entries, k) ==
    IF k > Len(entries) THEN <<>>
    ELSE <<check_data_type(d, entries[k].column, entries[k].param)>>

\* the records of a per-column rule, one per entry, in the order of the entries
RECURSIVE TypeResults(_, _, _)
TypeResults(d, entries, k) ==
    IF k > Len(entries) THEN <<>>
    ELSE <<check_data_type(d, entries[k].column, entries[k].param)>>
         \o TypeResults(d, entries, k + 1)

RECURSIVE UniqueResults(_, _, _)
UniqueResults(d, columns, k) ==
    IF k > Len(columns) THEN <<>>
    ELSE <<check_unique_values(d, columns[k])>> \o UniqueResults(d, columns, k + 1)

RECURSIVE RangeResults(_, _, _)
RangeResults(d, entries, k) ==
    IF k > Len(entries) THEN <<>>
    ELSE <<check_range(d, entries[k].column, entries[k].param.min,
                       entries[k].param.max)>>
         \o RangeResults(d, entries, k + 1)

\* a variant of RuleResults that runs the range checks before the uniqueness
\* checks
RuleResultsRangeFirst(config, d) ==
    (IF config.has_expected_columns
     THEN <<check_column_names(d, config.expected_columns)>> ELSE <<>>)
    \o (IF config.has_check_missing_values /\ config.check_missing_values
        THEN <<check_missing_values(d)>> ELSE <<>>)
    \o (IF config.has_column_types
        THEN TypeResults(d, config.column_types, 1) ELSE <<>>)
    \o (IF config.has_column_ranges
        THEN RangeResults(d, config.column_ranges, 1) ELSE <<>>)
    \o (IF config.has_check_unique_values
        THEN UniqueResults(d, config.check_unique_values, 1) ELSE <<>>)

\* the records validate_data appends when the table is loaded
RuleResults(config, d) ==
    (IF config.has_expected_columns
     THEN <<check_column_names(d, config.expected_columns)>> ELSE <<>>)
    \o (IF config.has_check_missing_values /\ config.check_missing_values
        THEN <<check_missing_values(d)>> ELSE <<>>)
    \o (IF config.has_column_types
        THEN TypeResults(d, config.column_types, 1) ELSE <<>>)
    \o (IF config.has_check_unique_values
        THEN UniqueResults(d, config.check_unique_values, 1) ELSE <<>>)
    \o (IF config.has_column_ranges
        THEN RangeResults(d, config.column_ranges, 1) ELSE <<>>)

\* existing_rules and existing_column_rules, read before anything is appended
ExistingRule(results, rule) ==
    \E i \in 1..Len(results) : results[i].rule = rule

ExistingColumnRule(results, rule, column) ==
    \E i \in 1..Len(results) :
        /\ results[i].rule = rule
        /\ results[i].has_column
        /\ results[i].column = column

RECURSIVE SkippedColumns(_, _, _, _)
SkippedColumns(results, rule, columns, k) ==
    IF k > Len(columns) THEN <<>>
    ELSE (IF ~ExistingColumnRule(results, rule, columns[k])
          THEN <<OutcomeCD(rule, "skipped", columns[k], NotLoadedText)>>
          ELSE <<>>)
         \o SkippedColumns(results, rule, columns, k + 1)

EntryColumns(entries) == [i \in 1..Len(entries) |-> entries[i].column]

\* a variant of _add_skipped_results_for_config without the loop over
\* column_ranges
add_skipped_results_without_ranges(config, results) ==
    results
    \o (IF config.has_expected_columns /\ ~ExistingRule(results, "check_column_names")
        THEN <<OutcomeD("check_column_names", "skipped", NotLoadedText)>> ELSE <<>>)
    \o (IF /\ config.has_check_missing_values /\ config.check_missing_values
           /\ ~ExistingRule(results, "check_missing_values")
        THEN <<OutcomeD("check_missing_values", "skipped", NotLoadedText)>> ELSE <<>>)
    \o (IF config.has_column_types
        THEN SkippedColumns(results, "check_data_type",
                            EntryColumns(config.column_types), 1)
        ELSE <<>>)
    \o (IF config.has_check_unique_values
        THEN SkippedColumns(results, "check_unique_values",
                            config.check_unique_values, 1)
        ELSE <<>>)

\* the result list after _add_skipped_results_for_config
add_skipped_results_for_config(config, results) ==
    results
    \o (IF config.has_expected_columns /\ ~ExistingRule(results, "check_column_names")
        THEN <<OutcomeD("check_column_names", "skipped", NotLoadedText)>> ELSE <<>>)
    \o (IF /\ config.has_check_missing_values /\ config.check_missing_values
           /\ ~ExistingRule(results, "check_missing_values")
        THEN <<OutcomeD("check_missing_values", "skipped", NotLoadedText)>> ELSE <<>>)
    \o (IF config.has_column_types
        THEN SkippedColumns(results, "check_data_type",
                            EntryColumns(config.column_types), 1)
        ELSE <<>>)
    \o (IF config.has_check_unique_values
        THEN SkippedColumns(results, "check_unique_values",
                            config.check_unique_values, 1)
        ELSE <<>>)
    \o (IF config.has_column_ranges
        THEN SkippedColumns(results, "check_range",
                            EntryColumns(config.column_ranges), 1)
        ELSE <<>>)

\* any(result["status"] == "failed" for result in results)
AnyFailed(results) == \E i \in 1..Len(results) : results[i].status = "failed"

\* a variant of ValidateResults that inserts the placeholder load record
\* whenever the table is absent, whether or not a load record exists
ValidateResultsInsertsLoad(config, d, results) ==
    IF ~d.present
    THEN add_skipped_results_for_config(config, <<NotLoadedBefore>> \o LoadResult(results))
    ELSE LoadResult(results) \o RuleResults(config, d)

\* a variant of ValidateResults that does not clear the records of the
\* previous validation
ValidateResultsKeepsOld(config, d, results) ==
    IF ~d.present
    THEN add_skipped_results_for_config(config,
             IF LoadResult(results) = <<>> THEN <<NotLoadedBefore>> \o results
             ELSE results)
    ELSE results \o RuleResults(config, d)

\* a variant of ValidateResults that inserts no placeholder load record when
\* the table is absent and no load record exists
ValidateResultsNoPlaceholder(config, d, results) ==
    IF ~d.present
    THEN add_skipped_results_for_config(config, LoadResult(results))
    ELSE LoadResult(results) \o RuleResults(config, d)

\* the result list validate_data leaves
ValidateResults(config, d, results) ==
    IF ~d.present
    THEN add_skipped_results_for_config(config,
             IF LoadResult(results) = <<>> THEN <<NotLoadedBefore>>
             ELSE LoadResult(results))
    ELSE LoadResult(results) \o RuleResults(config, d)

\* a variant of ValidateReturn that passes only when every record is 'passed'
ValidateReturnAllPassed(d, results) ==
    IF ~d.present THEN FALSE
    ELSE \A i \in 1..Len(results) : results[i].status = "passed"

\* what validate_data returns, given the result list it leaves
ValidateReturn(d, results) ==
    IF ~d.present THEN FALSE
    ELSE ~AnyFailed(results)

validate_data ==
    /\ detailed_results' = ValidateResults(validation_config, df, detailed_results)
    /\ returned' = ValidateReturn(df, detailed_results')
    /\ prev_op' = last_op
    /\ last_op' = "validate_data"
    /\ report_content' = ""
    /\ saved' = "none"
    /\ started' = TRUE
    /\ UNCHANGED <<validation_config, df>>

(***************************************************************************)
(* generate_report.                                                        *)
(***************************************************************************)
\* The order of Python's str comparison on the strings that reach the sort
\* key: the position of the string in the sorted list of those strings.
StatusRank(status) ==
    CASE status = "failed" -> 1 [] status = "info" -> 2
      [] status = "passed" -> 3 [] status = "skipped" -> 4 [] OTHER -> 5

RuleRank(rule) ==
    CASE rule = "check_column_names" -> 1 [] rule = "check_data_type" -> 2
      [] rule = "check_missing_values" -> 3 [] rule = "check_range" -> 4
      [] rule = "check_unique_values" -> 5 [] rule = "generate_report" -> 6
      [] OTHER -> 7

ColumnRank(column) ==
    CASE column = "" -> 0 [] column = "ID" -> 1 [] column = "Value" -> 2
      [] OTHER -> 3

\* a variant of KeyLess whose key is the status alone
KeyLessStatusOnly(a, b) == StatusRank(a.status) < StatusRank(b.status)

\* key(a) < key(b) for key = (status, rule, column or "")
KeyLess(a, b) ==
    LET ca == IF a.has_column THEN a.column ELSE ""
        cb == IF b.has_column THEN b.column ELSE ""
    IN  \/ StatusRank(a.status) < StatusRank(b.status)
        \/ /\ StatusRank(a.status) = StatusRank(b.status)
           /\ \/ RuleRank(a.rule) < RuleRank(b.rule)
              \/ /\ RuleRank(a.rule) = RuleRank(b.rule)
                 /\ ColumnRank(ca) < ColumnRank(cb)

\* insert x into the sorted list s after the records that are not greater
RECURSIVE InsertSorted(_, _)
InsertSorted(s, x) ==
    IF s = <<>> THEN <<x>>
    ELSE IF KeyLess(x, Head(s)) THEN <<x>> \o s
    ELSE <<Head(s)>> \o InsertSorted(Tail(s), x)

\* sorted(results, key=...): a stable sort
RECURSIVE SortedFrom(_, _, _)
SortedFrom(results, k, acc) ==
    IF k > Len(results) THEN acc
    ELSE SortedFrom(results, k + 1, InsertSorted(acc, results[k]))

Sorted(results) == SortedFrom(results, 1, <<>>)

OtherResults(results) ==
    Sorted(SelectSeq(results, LAMBDA res : res.rule # "load_excel"))

WithStatus(results, status) ==
    SelectSeq(results, LAMBDA res : res.status = status)

\* res.get("details", "No specific details available.")
DetailsOf(res) ==
    IF res.has_details THEN res.details ELSE "No specific details available."

ColumnInfo(res) ==
    IF res.has_column THEN " (Column: " \o res.column \o ")" ELSE ""

\* the line of a failed or a skipped record
RuleLine(res) ==
    "- Rule '" \o res.rule \o "'" \o ColumnInfo(res) \o ": " \o DetailsOf(res)

\* the line of a passed record
PassedLine(res) ==
    LET details_info ==
            IF /\ res.has_details /\ res.details # ""
               /\ res.details # "File loaded successfully."
            THEN ": " \o res.details ELSE ""
        status_info == IF details_info = "" THEN " (status: passed)" ELSE ""
    IN  "- Rule '" \o res.rule \o "'" \o ColumnInfo(res) \o details_info
        \o status_info

\* the line of the load record
LoadLine(res) ==
    "- Rule '" \o res.rule \o "' (status: " \o res.status \o "): " \o DetailsOf(res)

OverallStatus(results) == IF AnyFailed(results) THEN "FAILED" ELSE "PASSED"

OverallLine(results) == "\nOverall Status: " \o OverallStatus(results) \o "\n"

\* report_lines of a result list that is not empty
ReportLines(results) ==
    LET load_result == LoadResult(results)
        other_results == OtherResults(results)
        failed_rules == WithStatus(other_results, "failed")
        passed_rules == WithStatus(other_results, "passed")
        skipped_rules == WithStatus(other_results, "skipped")
    IN  <<"--- Validation Report ---", OverallLine(results)>>
        \o (IF load_result # <<>>
            THEN <<LoadLine(load_result[1])>>
                 \o (IF other_results # <<>> THEN <<"">> ELSE <<>>)
            ELSE <<>>)
        \o (IF failed_rules # <<>>
            THEN <<"Failed Rules:">>
                 \o [i \in 1..Len(failed_rules) |-> RuleLine(failed_rules[i])]
                 \o (IF passed_rules # <<>> \/ skipped_rules # <<>>
                     THEN <<"">> ELSE <<>>)
            ELSE <<>>)
        \o (IF passed_rules # <<>>
            THEN <<"Passed Rules:">>
                 \o [i \in 1..Len(passed_rules) |-> PassedLine(passed_rules[i])]
                 \o (IF skipped_rules # <<>> THEN <<"">> ELSE <<>>)
            ELSE <<>>)
        \o (IF skipped_rules # <<>>
            THEN <<"Skipped Rules:">>
                 \o [i \in 1..Len(skipped_rules) |-> RuleLine(skipped_rules[i])]
            ELSE <<>>)
        \o <<"--- End of Report ---">>

NoResultsText ==
    "No validation results available. Run load_excel and validate_data first."

\* the text generate_report returns
ReportContent(results) ==
    IF results = <<>> THEN NoResultsText
    ELSE JoinWith(ReportLines(results), "\n")

\* a variant of ResultsAfterReport that records the save, as
\* test_generate_report_to_file expects
ResultsWithSaveRecord(results, wrote) ==
    IF wrote
    THEN results \o <<OutcomeD("generate_report", "info",
                               "Report saved to " \o output_filepath)>>
    ELSE results

\* a variant of ResultsAfterReport that records a failure whenever no file
\* was written
ResultsWithWriteFailure(results, wrote) ==
    IF wrote THEN results
    ELSE results \o <<OutcomeD("generate_report", "failed",
                               "Could not save report to " \o output_filepath)>>

\* the result list generate_report leaves; wrote: a path was given and the
\* file was written
ResultsAfterReport(results, wrote) == results

\* generate_report(output_filepath), for each way the call may go: no output
\* path is given ("none"), the file is written ("saved"), or open or write
\* raises ("error")
generate_report ==
    /\ report_content' = ReportContent(detailed_results)
    /\ \E outcome \in {"none", "saved", "error"} :
          /\ saved' = outcome
          /\ detailed_results' = ResultsAfterReport(detailed_results, outcome = "saved")
    /\ prev_op' = last_op
    /\ last_op' = "generate_report"
    /\ UNCHANGED <<validation_config, df, returned, started>>

(***************************************************************************)
(* The specification: a validator is constructed for a configuration, and  *)
(* its methods are called in any order on any files.                       *)
(***************************************************************************)
Init ==
    /\ validation_config \in Configs
    /\ df = NoneDF
    /\ detailed_results = <<>>
    /\ last_op = "none"
    /\ prev_op = "none"
    /\ returned = FALSE
    /\ report_content = ""
    /\ saved = "none"
    /\ started = FALSE
    /\ duplicates = <<>>
    /\ raised = "none"

\* load_excel finds any file when no table is loaded
LoadExcel ==
    /\ ~df.present
    /\ \E file \in Files : load_excel(Read(validation_config, file))
    /\ UNCHANGED <<duplicates, raised>>

\* a file that was read is read again unchanged, or is missing, or is no
\* longer parseable
ReloadExcel ==
    /\ df.present
    /\ \E read \in {[kind |-> "sheet", table |-> df],
                    [kind |-> "missing", table |-> NoneDF],
                    [kind |-> "corrupt", table |-> NoneDF]} : load_excel(read)
    /\ UNCHANGED <<duplicates, raised>>

ValidateData == validate_data /\ UNCHANGED <<duplicates, raised>>

GenerateReport == generate_report /\ UNCHANGED <<duplicates, raised>>

Next == LoadExcel \/ ReloadExcel \/ ValidateData \/ GenerateReport

Spec == Init /\ [][Next]_vars

(***************************************************************************)
(* Helpers of the properties.                                              *)
(***************************************************************************)
\* the number of records of results that satisfy P
CountOf(results, P(_)) == Len(SelectSeq(results, P))

\* the number of records of a rule, and of a rule/column pair
RuleRecords(results, rule) ==
    CountOf(results, LAMBDA res : res.rule = rule)

PairRecords(results, rule, column) ==
    CountOf(results, LAMBDA res : res.rule = rule /\ res.has_column
                                  /\ res.column = column)

\* the column is named under the per-column key
Names(entries, column) == \E i \in 1..Len(entries) : entries[i].column = column

NamesColumn(columns, column) == \E i \in 1..Len(columns) : columns[i] = column

\* the load failed: the list starts with the failed record of load_excel
LoadFailed ==
    /\ ~df.present
    /\ detailed_results # <<>>
    /\ detailed_results[1] \in {LoadNotFound, LoadError}

\* s starts with prefix
StartsWith(s, prefix) ==
    Len(s) >= Len(prefix) /\ SubSeq(s, 1, Len(prefix)) = prefix

\* the status the 'Overall Status' line of a report states
ReportedStatus(report) ==
    IF StartsWith(report, "--- Validation Report ---\n\nOverall Status: PASSED\n\n")
    THEN "PASSED"
    ELSE IF StartsWith(report, "--- Validation Report ---\n\nOverall Status: FAILED\n\n")
    THEN "FAILED"
    ELSE "none"

(***************************************************************************)
(* C1.  After validate_data the result list holds exactly one record of    *)
(* check_column_names when expected_columns is configured, exactly one     *)
(* record of check_missing_values when check_missing_values is configured  *)
(* true, and exactly one record of each rule/column pair named under       *)
(* column_types, check_unique_values and column_ranges, whether the load   *)
(* succeeded or failed.                                                    *)
(***************************************************************************)
C1_OneRecordPerConfiguredRule ==
    last_op = "validate_data" =>
        /\ validation_config.has_expected_columns
               => RuleRecords(detailed_results, "check_column_names") = 1
        /\ validation_config.has_check_missing_values
           /\ validation_config.check_missing_values
               => RuleRecords(detailed_results, "check_missing_values") = 1
        /\ \A column \in ColumnNames :
              /\ validation_config.has_column_types
                 /\ Names(validation_config.column_types, column)
                     => PairRecords(detailed_results, "check_data_type", column) = 1
              /\ validation_config.has_check_unique_values
                 /\ NamesColumn(validation_config.check_unique_values, column)
                     => PairRecords(detailed_results, "check_unique_values", column) = 1
              /\ validation_config.has_column_ranges
                 /\ Names(validation_config.column_ranges, column)
                     => PairRecords(detailed_results, "check_range", column) = 1

\* validate_data ran after a failed load on a configuration that names a
\* type check and a range check
C1_Witness ==
    /\ last_op = "validate_data"
    /\ LoadFailed
    /\ validation_config.has_column_types
    /\ validation_config.has_column_ranges
    /\ Len(detailed_results) = 3

(***************************************************************************)
(* C2.  validate_data returns True exactly when no record of the result    *)
(* list, the load record included, is 'failed'; and the 'Overall Status'   *)
(* line of the report generated next is PASSED exactly when validate_data  *)
(* returned True, and FAILED otherwise.                                    *)
(***************************************************************************)
C2_ReturnIsOverallStatus ==
    /\ last_op = "validate_data" => (returned <=> ~AnyFailed(detailed_results))
    /\ last_op = "generate_report" /\ prev_op = "validate_data"
           => ReportedStatus(report_content)
                  = (IF returned THEN "PASSED" ELSE "FAILED")

\* a report generated after a validation of a loaded table in which a rule failed
C2_Witness ==
    /\ last_op = "generate_report"
    /\ prev_op = "validate_data"
    /\ df.present
    /\ ~returned
    /\ ReportedStatus(report_content) = "FAILED"

(***************************************************************************)
(* C3.  load_excel returns True with the table present and the result list *)
(* made of one 'passed' load record, or it returns False with the table    *)
(* absent and the result list made of one 'failed' load record that        *)
(* carries the failure detail (file not found, or the parse error).        *)
(***************************************************************************)
C3_LoadOutcome ==
    last_op = "load_excel" =>
        /\ Len(detailed_results) = 1
        /\ detailed_results[1].rule = "load_excel"
        /\ returned =>
              /\ df.present
              /\ detailed_results[1].status = "passed"
        /\ ~returned =>
              /\ df = NoneDF
              /\ detailed_results[1].status = "failed"
              /\ detailed_results[1].has_details
              /\ detailed_results[1].details
                     \in {"File not found at " \o filepath,
                          "Error loading excel file: " \o ParseErrorText}

\* a load that failed on a validator that had a table loaded and validated
C3_Witness ==
    /\ last_op = "load_excel"
    /\ prev_op = "validate_data"
    /\ ~returned
    /\ df = NoneDF
    /\ detailed_results = <<LoadNotFound>>

(***************************************************************************)
(* C4.  Once load_excel or validate_data has been called, the result list  *)
(* holds exactly one record of rule 'load_excel', and it is the first.     *)
(***************************************************************************)
C4_OneLoadRecordFirst ==
    started =>
        /\ RuleRecords(detailed_results, "load_excel") = 1
        /\ detailed_results[1].rule = "load_excel"

\* validate_data was called twice on a validator that never loaded
C4_Witness ==
    /\ started
    /\ last_op = "validate_data"
    /\ prev_op = "validate_data"
    /\ detailed_results[1] = NotLoadedBefore
    /\ Len(detailed_results) > 1

(***************************************************************************)
(* C5.  A validate_data call that directly follows a validate_data call    *)
(* leaves the result list as the first call left it, element by element    *)
(* and in the same order, and returns what the first call returned.        *)
(***************************************************************************)
C5_ValidateTwice ==
    [][(last_op = "validate_data" /\ last_op' = "validate_data")
          => (detailed_results' = detailed_results /\ returned' = returned)]_vars

\* validate_data was called twice in a row on a loaded table, and the list
\* holds the load record and two more
C5_Witness ==
    /\ last_op = "validate_data"
    /\ prev_op = "validate_data"
    /\ df.present
    /\ Len(detailed_results) = 3

(***************************************************************************)
(* C6.  After a failed load validate_data runs no rule: it keeps the       *)
(* failed load record, every other record is 'skipped' with the details    *)
(* 'DataFrame not loaded', there is one such record per configured rule    *)
(* and rule/column pair, and validate_data returns False.                  *)
(***************************************************************************)
C6_SkippedAfterFailedLoad ==
    last_op = "validate_data" /\ LoadFailed =>
        /\ ~returned
        /\ detailed_results[1].status = "failed"
        /\ \A i \in 2..Len(detailed_results) :
              /\ detailed_results[i].status = "skipped"
              /\ detailed_results[i].has_details
              /\ detailed_results[i].details = "DataFrame not loaded"
        /\ Len(detailed_results) = 1 + RuleCount(validation_config)
        /\ validation_config.has_expected_columns
               => RuleRecords(detailed_results, "check_column_names") = 1
        /\ validation_config.has_check_missing_values
           /\ validation_config.check_missing_values
               => RuleRecords(detailed_results, "check_missing_values") = 1
        /\ \A column \in ColumnNames :
              /\ Names(validation_config.column_types, column)
                     => PairRecords(detailed_results, "check_data_type", column) = 1
              /\ NamesColumn(validation_config.check_unique_values, column)
                     => PairRecords(detailed_results, "check_unique_values", column) = 1
              /\ Names(validation_config.column_ranges, column)
                     => PairRecords(detailed_results, "check_range", column) = 1

\* validate_data ran after a load that found no file, on a configuration
\* that names two rules
C6_Witness ==
    /\ last_op = "validate_data"
    /\ prev_op = "load_excel"
    /\ LoadFailed
    /\ detailed_results[1] = LoadNotFound
    /\ RuleCount(validation_config) = 2
    /\ Len(detailed_results) = 3

(***************************************************************************)
(* C7.  With the table loaded, the record of a rule/column pair of         *)
(* column_types, column_ranges or check_unique_values whose column is not  *)
(* in the table is 'skipped' with the details 'Column not found'; and when *)
(* no record is 'failed', validate_data returns True and the overall       *)
(* status is PASSED.                                                       *)
(***************************************************************************)
C7_AbsentColumnIsSkipped ==
    last_op = "validate_data" /\ df.present =>
        /\ \A i \in 1..Len(detailed_results) :
              /\ detailed_results[i].rule
                     \in {"check_data_type", "check_range", "check_unique_values"}
              /\ ~HasColumn(df, detailed_results[i].column)
              => /\ detailed_results[i].status = "skipped"
                 /\ detailed_results[i].has_details
                 /\ detailed_results[i].details = "Column not found"
        /\ \A column \in ColumnNames :
              ~HasColumn(df, column) =>
                  /\ Names(validation_config.column_types, column)
                         => PairRecords(detailed_results, "check_data_type", column) = 1
                  /\ NamesColumn(validation_config.check_unique_values, column)
                         => PairRecords(detailed_results, "check_unique_values", column) = 1
                  /\ Names(validation_config.column_ranges, column)
                         => PairRecords(detailed_results, "check_range", column) = 1
        /\ ~AnyFailed(detailed_results)
               => returned /\ OverallStatus(detailed_results) = "PASSED"

\* a table without the column Value was validated against a configuration
\* that names Value under column_ranges and ID under column_types, and
\* nothing failed
C7_Witness ==
    /\ last_op = "validate_data"
    /\ df.present
    /\ HasColumn(df, "ID")
    /\ ~HasColumn(df, "Value")
    /\ Names(validation_config.column_ranges, "Value")
    /\ Names(validation_config.column_types, "ID")
    /\ returned
    /\ \E i \in 1..Len(detailed_results) :
          detailed_results[i] = OutcomeCD("check_range", "skipped", "Value",
                                          "Column not found")

(***************************************************************************)
(* C8.  After validate_data the records after the load record are, in this *)
(* order: the check_column_names record, the check_missing_values record,  *)
(* the check_data_type records in the order of column_types, the           *)
(* check_unique_values records in the order of check_unique_values, the    *)
(* check_range records in the order of column_ranges; after a failed load  *)
(* the skipped placeholders are in the same order.                         *)
(***************************************************************************)
\* the rule/column pairs a configuration names, in the order of the claim
ConfiguredOrder(config) ==
    (IF config.has_expected_columns
     THEN <<[rule |-> "check_column_names", column |-> ""]>> ELSE <<>>)
    \o (IF config.has_check_missing_values /\ config.check_missing_values
        THEN <<[rule |-> "check_missing_values", column |-> ""]>> ELSE <<>>)
    \o [i \in 1..Len(config.column_types) |->
           [rule |-> "check_data_type", column |-> config.column_types[i].column]]
    \o [i \in 1..Len(config.check_unique_values) |->
           [rule |-> "check_unique_values", column |-> config.check_unique_values[i]]]
    \o [i \in 1..Len(config.column_ranges) |->
           [rule |-> "check_range", column |-> config.column_ranges[i].column]]

\* the rule/column pairs of the records after the first
RecordedOrder(results) ==
    [i \in 1..(Len(results) - 1) |->
        [rule |-> results[i + 1].rule, column |-> results[i + 1].column]]

C8_RecordOrder ==
    last_op = "validate_data" =>
        /\ detailed_results # <<>>
        /\ RecordedOrder(detailed_results) = ConfiguredOrder(validation_config)

\* a loaded table was validated against a configuration that names a
\* uniqueness check and a range check
C8_Witness ==
    /\ last_op = "validate_data"
    /\ df.present
    /\ validation_config.has_check_unique_values
    /\ validation_config.has_column_ranges
    /\ detailed_results[2].rule = "check_unique_values"
    /\ detailed_results[3].rule = "check_range"

Contains(s, text) ==
    \E k \in 1..(Len(s) - Len(text) + 1) : SubSeq(s, k, k + Len(text) - 1) = text

C10_SaveIsRecorded ==
    last_op = "generate_report" /\ saved = "saved" =>
        \E i \in 1..Len(detailed_results) :
            /\ detailed_results[i].rule = "generate_report"
            /\ detailed_results[i].status = "info"
            /\ detailed_results[i].has_details
            /\ Contains(detailed_results[i].details,
                        "Report saved to " \o output_filepath)

(***************************************************************************)
(* C11.  When the load failed because the file does not exist and rules    *)
(* are configured, the report generated after validate_data contains the   *)
(* header 'Failed Rules:', the line "- Rule 'load_excel': File not found   *)
(* at <path>" and a 'Skipped Rules:' section that lists every configured   *)
(* rule with 'DataFrame not loaded'.                                       *)
(***************************************************************************)
C11_FailedLoadReport ==
    /\ last_op = "generate_report"
    /\ prev_op = "validate_data"
    /\ ~df.present
    /\ detailed_results # <<>>
    /\ detailed_results[1] = LoadNotFound
    /\ RuleCount(validation_config) > 0
    => /\ Contains(report_content, "\nFailed Rules:\n")
       /\ Contains(report_content,
                   "\n- Rule 'load_excel': File not found at " \o filepath \o "\n")
       /\ Contains(report_content, "\nSkipped Rules:\n")
       /\ \A i \in 2..Len(detailed_results) :
              Contains(report_content,
                       "\n" \o RuleLine(detailed_results[i]) \o "\n")

(***************************************************************************)
(* C12.  In every report of a result list that is not empty, the line of   *)
(* the load record comes before every section and reads "- Rule            *)
(* 'load_excel' (status: <status>): <details>" whatever the status; the    *)
(* other records are split into the sections Failed, Passed, Skipped, in   *)
(* that order; a section header is printed only when its section is not    *)
(* empty; within a section the records are ordered by (rule, column or     *)
(* the empty string).                                                      *)
(***************************************************************************)
\* the header of the section of a status
SectionHeader(status) ==
    CASE status = "failed" -> "Failed Rules:"
      [] status = "passed" -> "Passed Rules:"
      [] status = "skipped" -> "Skipped Rules:"

\* the positions of a line in a list of lines
PositionsOf(lines, line) == {k \in 1..Len(lines) : lines[k] = line}

\* the line the report prints for a record that is not the load record
LineOf(res) == IF res.status = "passed" THEN PassedLine(res) ELSE RuleLine(res)

\* (rule, column or "") of a is before that of b
RuleColumnLess(a, b) ==
    \/ RuleRank(a.rule) < RuleRank(b.rule)
    \/ /\ a.rule = b.rule
       /\ ColumnRank(IF a.has_column THEN a.column ELSE "")
              < ColumnRank(IF b.has_column THEN b.column ELSE "")

RuleCells == {Null, Num(4), Num(6), Num(7), Str("3"), Str("x")}

\* the tables: a column ID of up to MaxRows cells, and tables without rows
RuleTables ==
    {[present |-> TRUE, columns |-> <<"ID">>, cells |-> <<s>>] :
        s \in UNION {[1..n -> RuleCells] : n \in 0..MaxRows}}
    \cup {[present |-> TRUE, columns |-> h, cells |-> [i \in 1..Len(h) |-> <<>>]] :
            h \in {<<>>, <<"Value">>, <<"ID", "Value">>, <<"Value", "ID">>}}

RuleTypeTags == {"int", "float", "INT", "str"}

\* the ranges: each bound is absent, 2 or 3
RuleRanges ==
    {[min |-> lo, max |-> hi] :
        lo \in {NoBound, Bound(2), Bound(3)}, hi \in {NoBound, Bound(2), Bound(3)}}

\* the configuration {}
EmptyConfig ==
    [has_expected_columns |-> FALSE, expected_columns |-> <<>>,
     has_check_missing_values |-> FALSE, check_missing_values |-> FALSE,
     has_column_types |-> FALSE, column_types |-> <<>>,
     has_check_unique_values |-> FALSE, check_unique_values |-> <<>>,
     has_column_ranges |-> FALSE, column_ranges |-> <<>>]

\* the configurations that name one rule
RuleConfigs ==
    {[EmptyConfig EXCEPT !.has_expected_columns = TRUE, !.expected_columns = e] :
        e \in ColumnLists}
    \cup {[EmptyConfig EXCEPT !.has_check_missing_values = TRUE,
                              !.check_missing_values = TRUE]}
    \cup {[EmptyConfig EXCEPT !.has_column_types = TRUE,
                              !.column_types = <<[column |-> c, param |-> t]>>] :
            c \in ColumnNames, t \in RuleTypeTags}
    \cup {[EmptyConfig EXCEPT !.has_check_unique_values = TRUE,
                              !.check_unique_values = <<c>>] : c \in ColumnNames}
    \cup {[EmptyConfig EXCEPT !.has_column_ranges = TRUE,
                              !.column_ranges = <<[column |-> c, param |-> r]>>] :
            c \in ColumnNames, r \in RuleRanges}

RuleInit ==
    /\ validation_config \in RuleConfigs
    /\ df \in RuleTables
    /\ detailed_results = <<>>
    /\ last_op = "none"
    /\ prev_op = "none"
    /\ returned = FALSE
    /\ report_content = ""
    /\ saved = "none"
    /\ started = FALSE
    /\ duplicates = <<>>
    /\ raised = "none"

\* the rule calls of validate_data on the table, without a load record
RunRules ==
    /\ last_op = "none"
    /\ detailed_results' = RuleResults(validation_config, df)
    /\ returned' = ~AnyFailed(detailed_results')
    /\ prev_op' = last_op
    /\ last_op' = "rules"
    /\ started' = TRUE
    /\ UNCHANGED <<validation_config, df, report_content, saved, duplicates, raised>>

RuleNext == RunRules

RuleSpec == RuleInit /\ [][RuleNext]_vars

\* the ascending list of the numbers of a set
RECURSIVE AscendingFrom(_)
AscendingFrom(S) ==
    IF S = {} THEN <<>>
    ELSE LET m == CHOOSE x \in S : \A y \in S : x <= y
         IN  <<m>> \o AscendingFrom(S \ {m})

(***************************************************************************)
(* C13.  On a present column checked with the tag int or float, the        *)
(* data-type check fails exactly when some cell that is not null either    *)
(* does not coerce to a number or (tag int only) coerces to a number with  *)
(* a fractional part; the indices it reports are exactly the positional    *)
(* indices of those cells, ascending; null cells are never reported; a     *)
(* column of whole numbers checked as float passes.                        *)
(***************************************************************************)
\* the cell coerces to a number
Coerces(c) == ToNumeric(c).ok

MixedCells == {Num(2), Num(4), Str("3"), Str("x")}

MixedSheets ==
    {[present |-> TRUE, columns |-> <<"ID">>, cells |-> <<s>>] :
        s \in UNION {[1..n -> MixedCells] : n \in 0..MaxRows}}

MixedFiles ==
    {[kind |-> "missing", table |-> NoneDF]}
    \cup {[kind |-> "sheet", table |-> t] : t \in MixedSheets}

MixedInit ==
    /\ Init
    /\ validation_config \in {c \in RuleConfigs : c.has_column_types}

LoadMixedExcel ==
    /\ ~df.present
    /\ \E file \in MixedFiles : load_excel(Read(validation_config, file))
    /\ UNCHANGED <<duplicates, raised>>

MixedNext == LoadMixedExcel \/ ValidateData

MixedSpec == MixedInit /\ [][MixedNext]_vars

(***************************************************************************)
(* C14.  When a column configured as int holds numbers except for one cell *)
(* entered as text whose content is a numeral (the cells 1, 2, '3'),       *)
(* load_excel followed by validate_data returns False and the              *)
(* check_data_type record of the column is 'failed' and reports exactly    *)
(* the index of the text cell.                                             *)
(***************************************************************************)
\* the cell is text whose content is a numeral
IsNumeralText(c) == c.kind = "str" /\ ToNumeric(c).ok

\* the sheets whose column ID holds whole numbers and one numeral text
OneNumeralTextSheets ==
    {t \in MixedSheets :
        /\ Cardinality({k \in 1..Len(t.cells[1]) : IsNumeralText(t.cells[1][k])}) = 1
        /\ \A k \in 1..Len(t.cells[1]) :
              \/ IsNumeralText(t.cells[1][k])
              \/ t.cells[1][k].kind = "num" /\ t.cells[1][k].num % 2 = 0}

C14_NumeralTextFails ==
    \A t \in OneNumeralTextSheets :
        /\ last_op = "validate_data"
        /\ prev_op = "load_excel"
        /\ validation_config.column_types = <<[column |-> "ID", param |-> "int"]>>
        /\ df = ReadExcel(validation_config, t)
        => LET k == CHOOSE i \in 1..Len(t.cells[1]) : IsNumeralText(t.cells[1][i])
           IN  /\ ~returned
               /\ Len(detailed_results) = 2
               /\ detailed_results[2] =
                      OutcomeCD("check_data_type", "failed", "ID",
                          "Expected type 'int', but non-numeric or non-integer values found at indices "
                          \o IndexListRepr(<<k - 1>>) \o ".")

(***************************************************************************)
(* C15.  In the range check of a present column a numeric cell is listed   *)
(* as below the minimum exactly when min is given and its value is         *)
(* strictly less than min, and as above the maximum exactly when max is    *)
(* given and its value is strictly greater than max; a cell whose value    *)
(* equals min is never listed as below the minimum, a cell whose value     *)
(* equals max is never listed as above the maximum, and when min <= max    *)
(* (or a bound is absent) such a cell is in no failure index list.         *)
(***************************************************************************)
\* the part of the details that lists the 0-based indices of a set of cells
ListedPart(prefix, cells, suffix) ==
    IF cells = {} THEN <<>>
    ELSE <<prefix \o IndexListRepr(AscendingFrom({k - 1 : k \in cells})) \o suffix>>

\* the cells of s that do not coerce, that are below min, that are above max
NotNumbers(s) == {k \in 1..Len(s) : s[k] # Null /\ ~Coerces(s[k])}

Below(s, range) ==
    {k \in 1..Len(s) :
        Coerces(s[k]) /\ range.min.has /\ ToNumeric(s[k]).num < 2 * range.min.value}

Above(s, range) ==
    {k \in 1..Len(s) :
        Coerces(s[k]) /\ range.max.has /\ ToNumeric(s[k]).num > 2 * range.max.value}

\* the value of the cell is the bound
EqualsBound(c, bound) == Coerces(c) /\ bound.has /\ ToNumeric(c).num = 2 * bound.value

\* the record of check_range lists exactly the cells of the three sets
RangeRecordLists(column, range, s, res) ==
    LET parts ==
            ListedPart("Column '" \o column
                       \o "' contains non-numeric values that prevent range check at indices ",
                       NotNumbers(s), ".")
            \o ListedPart("Values below minimum (" \o ToString(range.min.value)
                          \o ") found at indices: ", Below(s, range), "")
            \o ListedPart("Values above maximum (" \o ToString(range.max.value)
                          \o ") found at indices: ", Above(s, range), "")
    IN  /\ res.rule = "check_range"
        /\ res.has_column /\ res.column = column
        /\ res.status = IF parts = <<>> THEN "passed" ELSE "failed"
        /\ parts # <<>> => res.has_details /\ res.details = JoinWith(parts, "; ")

C15_RangeIsInclusive ==
    /\ last_op = "rules"
    /\ validation_config.has_column_ranges
    /\ HasColumn(df, validation_config.column_ranges[1].column)
    => LET column == validation_config.column_ranges[1].column
           range == validation_config.column_ranges[1].param
           s == Series(df, column)
       IN  /\ Len(detailed_results) = 1
           /\ RangeRecordLists(column, range, s, detailed_results[1])
           /\ \A k \in 1..Len(s) :
                 /\ EqualsBound(s[k], range.min) => k \notin Below(s, range)
                 /\ EqualsBound(s[k], range.max) => k \notin Above(s, range)
                 /\ /\ EqualsBound(s[k], range.min) \/ EqualsBound(s[k], range.max)
                    /\ ~(range.min.has /\ range.max.has
                         /\ range.min.value > range.max.value)
                    => k \notin NotNumbers(s) \cup Below(s, range) \cup Above(s, range)

\* the column 2, 3, 3.5 checked against [2, 3]: only index 2 is listed
C15_Witness ==
    /\ last_op = "rules"
    /\ validation_config.has_column_ranges
    /\ validation_config.column_ranges[1] =
           [column |-> "ID", param |-> [min |-> Bound(2), max |-> Bound(3)]]
    /\ df.columns = <<"ID">>
    /\ df.cells[1] = <<Num(4), Num(6), Num(7)>>
    /\ detailed_results[1].status = "failed"
    /\ detailed_results[1].details = "Values above maximum (3) found at indices: [2]"

\* C15 as the claim words it: a cell whose value equals min or max is in no
\* failure index list, whatever the two bounds are
C15_EqualIsNeverListed ==
    /\ last_op = "rules"
    /\ validation_config.has_column_ranges
    /\ HasColumn(df, validation_config.column_ranges[1].column)
    => LET column == validation_config.column_ranges[1].column
           range == validation_config.column_ranges[1].param
           s == Series(df, column)
       IN  /\ RangeRecordLists(column, range, s, detailed_results[1])
           /\ \A k \in 1..Len(s) :
                 EqualsBound(s[k], range.min) \/ EqualsBound(s[k], range.max)
                 => k \notin NotNumbers(s) \cup Below(s, range) \cup Above(s, range)

(***************************************************************************)
(* C16.  On a present column the uniqueness check fails exactly when some  *)
(* value occurs more than once among the cells that are not null; on       *)
(* failure it lists exactly the non-null values that occur more than once, *)
(* each once, in the order of their first occurrence; null cells never     *)
(* cause a failure and never appear in the listing, however many they are. *)
(***************************************************************************)
\* the first occurrences of the non-null values that occur more than once
FirstOfRepeated(s) ==
    {k \in 1..Len(s) :
        /\ s[k] # Null
        /\ \E j \in 1..Len(s) : j # k /\ s[j] = s[k]
        /\ \A j \in 1..(k - 1) : s[j] # s[k]}

C16_UniqueIgnoresNull ==
    /\ last_op = "rules"
    /\ validation_config.has_check_unique_values
    /\ HasColumn(df, validation_config.check_unique_values[1])
    => LET column == validation_config.check_unique_values[1]
           s == Series(df, column)
           res == detailed_results[1]
           first == AscendingFrom(FirstOfRepeated(s))
       IN  /\ Len(detailed_results) = 1
           /\ res.rule = "check_unique_values"
           /\ res.has_column /\ res.column = column
           /\ res.status = IF FirstOfRepeated(s) = {} THEN "passed" ELSE "failed"
           /\ FirstOfRepeated(s) # {} =>
                 /\ res.has_details
                 /\ res.details =
                        "Duplicate values found in column '" \o column
                        \o "'. Duplicated values (showing first occurrence): "
                        \o ListRepr([i \in 1..Len(first) |->
                                        CellRepr(s[first[i]], Dtype(s))])

(***************************************************************************)
(* The duplicate detector of src/main.py (find_duplicates).                *)
(***************************************************************************)
\* the length of the longest block of a that occurs in b
LongestBlock(a, b) ==
    LET lens == {n \in 1..Len(a) :
                    \E i \in 1..(Len(a) - n + 1), j \in 1..(Len(b) - n + 1) :
                        SubSeq(a, i, i + n - 1) = SubSeq(b, j, j + n - 1)}
    IN  IF lens = {} THEN 0 ELSE CHOOSE n \in lens : \A m \in lens : m <= n

\* the number of matching characters SequenceMatcher finds: the longest
\* common block, the earliest in a and then in b, and recursively the
\* matching characters to its left and to its right
RECURSIVE MatchingChars(_, _)
MatchingChars(a, b) ==
    LET n == LongestBlock(a, b)
    IN  IF n = 0 THEN 0
        ELSE LET i == CHOOSE x \in 1..(Len(a) - n + 1) :
                         /\ \E j \in 1..(Len(b) - n + 1) :
                               SubSeq(a, x, x + n - 1) = SubSeq(b, j, j + n - 1)
                         /\ \A y \in 1..(x - 1) :
                               \A j \in 1..(Len(b) - n + 1) :
                                   SubSeq(a, y, y + n - 1) # SubSeq(b, j, j + n - 1)
                 j == CHOOSE x \in 1..(Len(b) - n + 1) :
                         /\ SubSeq(a, i, i + n - 1) = SubSeq(b, x, x + n - 1)
                         /\ \A y \in 1..(x - 1) :
                               SubSeq(a, i, i + n - 1) # SubSeq(b, y, y + n - 1)
             IN  n + MatchingChars(SubSeq(a, 1, i - 1), SubSeq(b, 1, j - 1))
                   + MatchingChars(SubSeq(a, i + n, Len(a)), SubSeq(b, j + n, Len(b)))

\* fuzz.ratio(s1, s2): 100 for equal strings, 0 when one is empty, and else
\* 100 * 2 * M / T rounded, M the matching characters and T the two lengths
fuzz_ratio(s1, s2) ==
    IF s1 = s2 THEN 100
    ELSE IF Len(s1) = 0 \/ Len(s2) = 0 THEN 0
    ELSE (2 * 200 * MatchingChars(s1, s2) + (Len(s1) + Len(s2)))
             \div (2 * (Len(s1) + Len(s2)))

\* str(name) of a cell of the column Name that is not null: the names are text
NameText(c) == c.text

\* a variant of Similar that emits a pair whose ratio is 90 too
SimilarFrom90(name1, name2) == fuzz_ratio(NameText(name1), NameText(name2)) >= 90

\* fuzz.ratio(str(name1), str(name2)) > 90
Similar(name1, name2) == fuzz_ratio(NameText(name1), NameText(name2)) > 90

\* the inner loop of find_duplicates: the tuples of row i with the rows from j
RECURSIVE InnerLoop(_, _, _)
InnerLoop(names, i, j) ==
    IF j > Len(names) THEN <<>>
    ELSE (IF ~IsNullCell(names[j]) /\ Similar(names[i], names[j])
          THEN <<<<i - 1, j - 1, names[i], names[j]>>>> ELSE <<>>)
         \o InnerLoop(names, i, j + 1)

\* the outer loop of find_duplicates, from row i
RECURSIVE OuterLoop(_, _)
OuterLoop(names, i) ==
    IF i > Len(names) THEN <<>>
    ELSE (IF IsNullCell(names[i]) THEN <<>> ELSE InnerLoop(names, i, i + 1))
         \o OuterLoop(names, i + 1)

\* find_duplicates(df): df['Name'] raises KeyError when the column is absent
find_duplicates ==
    /\ raised' = IF HasColumn(df, "Name") THEN "none" ELSE "KeyError"
    /\ duplicates' = IF HasColumn(df, "Name") THEN OuterLoop(Series(df, "Name"), 1)
                     ELSE <<>>
    /\ prev_op' = last_op
    /\ last_op' = "find_duplicates"
    /\ UNCHANGED <<validation_config, df, detailed_results, returned,
                   report_content, saved, started>>

\* the names: NaN and three names of which the first two have ratio 90 and
\* each has ratio 95 with the third
NameCells ==
    {Null, Str("abcdefghij"), Str("abcdefghiX"), Str("abcdefghiXj")}

\* the tables: a column Name of up to MaxNames cells, and tables without it
NameTables ==
    {[present |-> TRUE, columns |-> <<"Name">>, cells |-> <<s>>] :
        s \in UNION {[1..n -> NameCells] : n \in 0..MaxNames}}
    \cup {[present |-> TRUE, columns |-> <<"ID">>, cells |-> <<s>>] :
            s \in UNION {[1..n -> {Null, Num(4)}] : n \in 0..MaxNames}}

DupInit ==
    /\ validation_config = EmptyConfig
    /\ df \in NameTables
    /\ detailed_results = <<>>
    /\ last_op = "none"
    /\ prev_op = "none"
    /\ returned = FALSE
    /\ report_content = ""
    /\ saved = "none"
    /\ started = FALSE
    /\ duplicates = <<>>
    /\ raised = "none"

FindDuplicates == last_op = "none" /\ find_duplicates

DupNext == FindDuplicates

DupSpec == DupInit /\ [][DupNext]_vars

(***************************************************************************)
(* C17.  find_duplicates returns exactly the tuples (i, j, name_i, name_j) *)
(* of the row index pairs i < j where neither name is null and the ratio   *)
(* of the two names is strictly greater than 90 (a ratio of exactly 90 is  *)
(* not emitted), in ascending lexicographic order of (i, j).               *)
(***************************************************************************)
C17_DuplicatePairs ==
    last_op = "find_duplicates" /\ HasColumn(df, "Name") =>
        LET names == Series(df, "Name")
            Emitted(i, j) ==
                /\ i < j
                /\ names[i] # Null /\ names[j] # Null
                /\ fuzz_ratio(names[i].text, names[j].text) > 90
        IN  /\ raised = "none"
            /\ \A k \in 1..Len(duplicates) :
                  LET i == duplicates[k][1] + 1
                      j == duplicates[k][2] + 1
                  IN  /\ i \in 1..Len(names) /\ j \in 1..Len(names)
                      /\ Emitted(i, j)
                      /\ duplicates[k] = <<i - 1, j - 1, names[i], names[j]>>
            /\ \A i, j \in 1..Len(names) :
                  Emitted(i, j) =>
                      \E k \in 1..Len(duplicates) :
                          duplicates[k][1] = i - 1 /\ duplicates[k][2] = j - 1
            /\ \A k \in 1..(Len(duplicates) - 1) :
                  \/ duplicates[k][1] < duplicates[k + 1][1]
                  \/ /\ duplicates[k][1] = duplicates[k + 1][1]
                     /\ duplicates[k][2] < duplicates[k + 1][2]

\* three names of which rows 0 and 1 have ratio exactly 90: only the pairs
\* (0, 2) and (1, 2) are returned, in that order
C17_Witness ==
    /\ last_op = "find_duplicates"
    /\ df.columns = <<"Name">>
    /\ df.cells[1] = <<Str("abcdefghij"), Str("abcdefghiX"), Str("abcdefghiXj")>>
    /\ fuzz_ratio("abcdefghij", "abcdefghiX") = 90
    /\ Len(duplicates) = 2
    /\ duplicates[1][1] = 0 /\ duplicates[1][2] = 2
    /\ duplicates[2][1] = 1 /\ duplicates[2][2] = 2

(***************************************************************************)
(* C18.  When the table has no column 'Name', the duplicate detector       *)
(* returns an empty list of pairs and signals no error.                    *)
(***************************************************************************)
C18_NoNameColumn ==
    last_op = "find_duplicates" /\ ~HasColumn(df, "Name") =>
        raised = "none" /\ duplicates = <<>>

(***************************************************************************)
(* C19.  The column-presence check fails exactly when at least one         *)
(* expected column is absent from the table; on failure it reports exactly *)
(* the expected columns that are absent, in the order the configuration    *)
(* lists them; otherwise the record is 'passed'.                           *)
(***************************************************************************)
C19_MissingColumnsListed ==
    last_op = "rules" /\ validation_config.has_expected_columns =>
        LET expected == validation_config.expected_columns
            absent == AscendingFrom({k \in 1..Len(expected) :
                                        \A i \in 1..Len(df.columns) :
                                            df.columns[i] # expected[k]})
            res == detailed_results[1]
        IN  /\ Len(detailed_results) = 1
            /\ res.rule = "check_column_names"
            /\ ~res.has_column
            /\ res.status = IF absent = <<>> THEN "passed" ELSE "failed"
            /\ absent = <<>> => ~res.has_details
            /\ absent # <<>> =>
                  /\ res.has_details
                  /\ res.details =
                         "Missing columns: "
                         \o StrListRepr([i \in 1..Len(absent) |-> expected[absent[i]]])

\* a table without columns checked for Value, ID: both are reported, in the
\* order of the configuration
C19_Witness ==
    /\ last_op = "rules"
    /\ validation_config.has_expected_columns
    /\ validation_config.expected_columns = <<"Value", "ID">>
    /\ df.columns = <<>>
    /\ detailed_results[1].status = "failed"
    /\ detailed_results[1].details = "Missing columns: ['Value', 'ID']"

(***************************************************************************)
(* C20.  When the range check runs on a present column whose cells are all *)
(* null, the record is 'failed' with the reason that the column is not     *)
(* numeric and cannot be checked for range.                                *)
(***************************************************************************)
C20_AllNullColumnFails ==
    /\ last_op = "rules"
    /\ validation_config.has_column_ranges
    /\ HasColumn(df, validation_config.column_ranges[1].column)
    /\ Len(Series(df, validation_config.column_ranges[1].column)) > 0
    /\ \A k \in 1..Len(Series(df, validation_config.column_ranges[1].column)) :
          Series(df, validation_config.column_ranges[1].column)[k] = Null
    => /\ detailed_results[1].rule = "check_range"
       /\ detailed_results[1].status = "failed"
       /\ detailed_results[1].has_details
       /\ detailed_results[1].details =
              "Column '" \o validation_config.column_ranges[1].column
              \o "' is not numeric and cannot be checked for range."

(***************************************************************************)
(* C21.  In the range check of a present column, cells that are not        *)
(* numeric do not stop the bound checks: the details join every reason     *)
(* that applies with '; ', in the order non-numeric, below minimum, above  *)
(* maximum, each reason at most once, and the record is 'passed' exactly   *)
(* when no reason applies (in particular when min and max are both absent  *)
(* and every cell that is not null is numeric).                            *)
(***************************************************************************)
\* the number of times text occurs in s
Occurrences(s, text) ==
    Cardinality({k \in 1..(Len(s) - Len(text) + 1) :
                    SubSeq(s, k, k + Len(text) - 1) = text})

C22_WriteFailureIsHarmless ==
    [][last_op' = "generate_report" /\ saved' = "error" =>
          /\ raised' = "none"
          /\ detailed_results' = detailed_results
          /\ returned' = returned
          /\ OverallStatus(detailed_results') = OverallStatus(detailed_results)
          /\ detailed_results # <<>> =>
                ReportedStatus(report_content') = OverallStatus(detailed_results)
          /\ detailed_results = <<>> => report_content' = NoResultsText
          /\ last_op = "generate_report" /\ saved = "none" =>
                report_content' = report_content]_vars

\* a report of a failed validation was returned without an output path, and
\* the next call, whose write failed, returned the same text
C22_Witness ==
    /\ last_op = "generate_report"
    /\ prev_op = "generate_report"
    /\ saved = "error"
    /\ raised = "none"
    /\ df.present
    /\ ~returned
    /\ Len(detailed_results) = 3
    /\ ReportedStatus(report_content) = "FAILED"

(***************************************************************************)
(* C23.  When validate_data is called on a validator on which load_excel   *)
(* was never called, it returns False and the result list becomes one      *)
(* 'failed' load_excel record (details 'DataFrame not loaded before        *)
(* validation.') at position 0 followed by one 'skipped' record per        *)
(* configured rule or rule/column pair; a second validate_data call yields *)
(* the same list and adds no other load record.                            *)
(***************************************************************************)
\* load_excel was never called: the list holds no record that load_excel
\* writes (load_excel leaves one, and validate_data and generate_report keep it)
NeverLoaded ==
    \A i \in 1..Len(detailed_results) :
        detailed_results[i] \notin {LoadPassed, LoadNotFound, LoadError}

C23_ValidateWithoutLoad ==
    [][last_op' = "validate_data" /\ NeverLoaded =>
          /\ ~returned'
          /\ Len(detailed_results') = 1 + RuleCount(validation_config)
          /\ detailed_results'[1] =
                 [rule |-> "load_excel", status |-> "failed",
                  has_column |-> FALSE, column |-> "", has_details |-> TRUE,
                  details |-> "DataFrame not loaded before validation."]
          /\ RuleRecords(detailed_results', "load_excel") = 1
          /\ \A i \in 2..Len(detailed_results') :
                /\ detailed_results'[i].status = "skipped"
                /\ detailed_results'[i].has_details
                /\ detailed_results'[i].details = "DataFrame not loaded"
          /\ RecordedOrder(detailed_results') = ConfiguredOrder(validation_config)
          /\ started => detailed_results' = detailed_results]_vars

\* validate_data was called twice, with a report in between, on a validator
\* that never loaded and whose configuration names two rules
C23_Witness ==
    /\ NeverLoaded
    /\ last_op = "validate_data"
    /\ prev_op = "generate_report"
    /\ RuleCount(validation_config) = 2
    /\ Len(detailed_results) = 3
    /\ detailed_results[1].status = "failed"
    /\ detailed_results[1].details = "DataFrame not loaded before validation."
    /\ ~returned
====
